---- MODULE Spec2Model ----
(***************************************************************************)
(* TaleCast: the download tracker (src/src/download_tracker.rs) and the    *)
(* command dispatch of src/src/main.rs.  Text is modelled as sequences of  *)
(* one-character strings, the tracker file as the text it holds.           *)
(***************************************************************************)
EXTENDS Naturals, Sequences, FiniteSets

\* ------------------------------------------------------------------ bounds
\* Number of program invocations (sync or catch-up) in one behaviour.
MaxRuns == 3

\* ------------------------------------------------------------------ text
SP == " "
NL == "\n"
QUOTE == "\""

\* char::is_whitespace, on the characters of the model
IsWhitespace(c) == c \in {SP, NL}

NoneValue == <<"None">>

RECURSIVE TrimStart(_)
TrimStart(s) ==
    IF s # <<>> /\ IsWhitespace(Head(s)) THEN TrimStart(Tail(s)) ELSE s

RECURSIVE TrimEnd(_)
TrimEnd(s) ==
    IF s # <<>> /\ IsWhitespace(s[Len(s)])
    THEN TrimEnd(SubSeq(s, 1, Len(s) - 1))
    ELSE s

\* str::trim
Trim(s) == TrimEnd(TrimStart(s))

\* str::lines: the text split at every line feed; a final line feed ends the
\* last line and does not open an empty one.
RECURSIVE LinesFrom(_, _)
LinesFrom(s, cur) ==
    IF s = <<>> THEN (IF cur = <<>> THEN <<>> ELSE <<cur>>)
    ELSE IF Head(s) = NL THEN <<cur>> \o LinesFrom(Tail(s), <<>>)
    ELSE LinesFrom(Tail(s), Append(cur, Head(s)))

Lines(s) == LinesFrom(s, <<>>)

RECURSIVE TakeToken(_)
TakeToken(s) ==
    IF s = <<>> \/ IsWhitespace(Head(s)) THEN <<>>
    ELSE <<Head(s)>> \o TakeToken(Tail(s))

\* line.split_whitespace().next(): the first maximal run of non-whitespace
\* characters of the line, NoneValue when the line has none.
FirstToken(line) ==
    LET t == TrimStart(line) IN IF t = <<>> THEN NoneValue ELSE TakeToken(t)

RECURSIVE Concat(_, _)
\* the first k sequences of ps, joined
Concat(ps, k) == IF k = 0 THEN <<>> ELSE Concat(ps, k - 1) \o ps[k]

\* ------------------------------------------------------------------ ledger
\* utils::current_unix().as_secs() printed in decimal: digits only
current_unix == <<"1">>

\* fs::read_to_string(path)
read_to_string(f) ==
    IF f.kind = "absent" THEN "NotFound"
    ELSE IF f.kind = "dir" THEN "OtherError"
    ELSE "Ok"

\* the HashSet built by lines 25-32 from the text of the file
ParseIds(text) ==
    LET ls == Lines(Trim(text))
    IN {FirstToken(ls[i]) : i \in 1..Len(ls)} \ {NoneValue}

\* DownloadedEpisodes::load with the NotFound arm left out
loadNotFoundFatal(f) ==
    IF read_to_string(f) # "Ok" THEN [panic |-> TRUE, ids |-> {}]
    ELSE [panic |-> FALSE, ids |-> ParseIds(f.content)]

\* DownloadedEpisodes::load: the set of first tokens of the lines of the file;
\* the empty set when the file does not exist; a panic (unwrap) on any other
\* read error.
load(f) ==
    IF read_to_string(f) = "NotFound" THEN [panic |-> FALSE, ids |-> {}]
    ELSE IF read_to_string(f) = "OtherError" THEN [panic |-> TRUE, ids |-> {}]
    ELSE [panic |-> FALSE, ids |-> ParseIds(f.content)]

\* DownloadedEpisodes::contains_episode
contains_episode(set, episode_id) == episode_id \in set

\* The pieces writeln! hands to the unbuffered file, one write each:
\* "{} {} \"{}\"\n" with id, seconds and title.
RecordPieces(id, title) ==
    << id, <<SP>>, current_unix, <<SP, QUOTE>>, title, <<QUOTE, NL>> >>

NumPieces == 6

\* the whole record of one append
Record(id, title) == Concat(RecordPieces(id, title), NumPieces)

\* the file opened without append(true): the writes go to the start of the file
WriteToFront(f, id, title, k) ==
    [kind |-> "file",
     content |-> Concat(RecordPieces(id, title), k)
                 \o (IF f.kind = "file" THEN f.content ELSE <<>>)]

\* OpenOptions::new().append(true).create(true).open(path) followed by the
\* first k writes of the record
WriteTo(f, id, title, k) ==
    [kind |-> "file",
     content |-> (IF f.kind = "file" THEN f.content ELSE <<>>)
                 \o Concat(RecordPieces(id, title), k)]

\* ------------------------------------------------------------------ filter
ToLower(c) ==
    CASE c = "A" -> "a" [] c = "B" -> "b" [] c = "L" -> "l" [] c = "P" -> "p"
      [] OTHER -> c

Lower(s) == [i \in 1..Len(s) |-> ToLower(s[i])]

\* Regex::new on the fragment of the syntax the model covers: literals, the
\* wildcard ".", the anchors "^" and "$", a leading "(?i)" flag group.  Any
\* other parenthesis is an unclosed group, a syntax error.
RegexNew(text) ==
    LET flagged == Len(text) >= 4 /\ SubSeq(text, 1, 4) = <<"(", "?", "i", ")">>
        pat == IF flagged THEN SubSeq(text, 5, Len(text)) ELSE text
    IN IF \E i \in 1..Len(pat) : pat[i] \in {"(", ")"}
       THEN [kind |-> "Err", ci |-> FALSE, pat |-> <<>>]
       ELSE [kind |-> "Ok", ci |-> flagged, pat |-> pat]

\* one pattern character against one character of the text
CharMatches(ci, p, c) ==
    \/ p = "."
    \/ p = c
    \/ ci /\ ToLower(p) = ToLower(c)

RECURSIVE MatchHere(_, _, _, _, _)
\* the pattern from position i matches the text from position j
MatchHere(ci, pat, i, text, j) ==
    IF i > Len(pat) THEN TRUE
    ELSE IF pat[i] = "^" THEN j = 1 /\ MatchHere(ci, pat, i + 1, text, j)
    ELSE IF pat[i] = "$" THEN j = Len(text) + 1 /\ MatchHere(ci, pat, i + 1, text, j)
    ELSE /\ j <= Len(text)
         /\ CharMatches(ci, pat[i], text[j])
         /\ MatchHere(ci, pat, i + 1, text, j + 1)

\* Regex::is_match: the pattern matches somewhere in the text
is_match(re, text) ==
    \E j \in 1..(Len(text) + 1) : MatchHere(re.ci, re.pat, 1, text, j)

NoFilter == [kind |-> "None", ci |-> FALSE, pat |-> <<>>]

\* From<Args> for Action, the filter compiled without the "(?i)" prefix
ActionFilterCaseSensitive(f) ==
    IF f = NoneValue THEN NoFilter ELSE RegexNew(f)

\* From<Args> for Action, lines 76-79:
\* args.filter.map(|f| Regex::new(&format!("(?i){}", f)).unwrap()).
\* kind "Err" is the panic of the unwrap.
ActionFilter(f) ==
    IF f = NoneValue THEN NoFilter ELSE RegexNew(<<"(", "?", "i", ")">> \o f)

\* PodcastConfigs::filter: the subscriptions whose name the filter matches,
\* all of them without a filter
PodcastConfigs_filter(subs, re) ==
    IF re.kind = "None" THEN subs ELSE {s \in subs : is_match(re, s)}

\* ------------------------------------------------------------------ inputs
\* the configured subscriptions, each identified by its unique name
Alpha == <<"A", "l", "p", "h", "a">>
Beta == <<"B", "e", "t", "a">>
Subs == {Alpha, Beta}

\* the values of --filter the model draws from
Filters ==
    { NoneValue,
      <<"a", "l", "p">>,
      <<"E", "T", ".", "$">>,
      <<"^", "l">>,
      <<"(">> }

\* episode ids a feed may carry; IdW holds a space
IdA == <<"a">>
IdB == <<"b">>
IdW == <<"c", SP, "d">>
EpisodeIds == {IdA, IdB, IdW}

Ep(id, title) == [id |-> id, title |-> title]
TitleT == <<"T">>
TitleQ == <<"T", QUOTE, "q">>
\* a title that runs over two lines
TitleN == <<"T", NL, "x">>

\* the feed contents a behaviour may run over (fixed for the behaviour)
FeedChoices ==
    { [s \in Subs |-> IF s = Alpha THEN <<Ep(IdA, TitleT), Ep(IdB, TitleT)>>
                                   ELSE <<Ep(IdB, TitleN)>>],
      [s \in Subs |-> IF s = Alpha THEN <<Ep(IdA, TitleT), Ep(IdA, TitleT)>>
                                   ELSE <<Ep(IdA, TitleT)>>],
      [s \in Subs |-> IF s = Alpha THEN <<Ep(IdW, TitleT)>> ELSE <<Ep(IdB, TitleQ)>>] }

\* ------------------------------------------------------------ command line
\* values the command line may carry
Url == <<"u">>
Query == <<"q">>
Path == <<"f">>
NameX == <<"a", "x", "b">>
NameDot == <<"a", ".", "b">>
NameEnd == <<"a", "$">>
NameParen == <<"a", "(">>
Names == {NameX, NameDot, NameEnd, NameParen}
CliFilters == {NoneValue, <<"x">>, <<"(">>}

\* --add takes one or two values (URL, NAME); the Vec is empty without it
Adds == {<<>>, <<Url>>} \cup {<<Url, n>> : n \in Names}

\* struct Args, without --config
ArgsSet ==
    [import : {NoneValue, Path}, export : {NoneValue, Path}, print : BOOLEAN,
     catch_up : BOOLEAN, add : Adds, filter : CliFilters,
     edit_config : BOOLEAN, edit_podcasts : BOOLEAN,
     search : {NoneValue, Query}, list : BOOLEAN]

\* From<Args> for Action with the test of --catch-up (lines 122-124) left out
ActionFromNoCatchUp(args) ==
    LET filter == ActionFilter(args.filter)
        catch_up == args.catch_up
    IN IF filter.kind = "Err" THEN [kind |-> "Panic"]
       ELSE IF args.list THEN [kind |-> "List", filter |-> filter]
       ELSE IF args.edit_config THEN [kind |-> "Edit", path |-> "config"]
       ELSE IF args.edit_podcasts THEN [kind |-> "Edit", path |-> "podcasts"]
       ELSE IF args.search # NoneValue
       THEN [kind |-> "Search", query |-> args.search, catch_up |-> catch_up]
       ELSE IF args.import # NoneValue
       THEN [kind |-> "Import", path |-> args.import, catch_up |-> catch_up]
       ELSE IF args.export # NoneValue
       THEN [kind |-> "Export", path |-> args.export, filter |-> filter]
       ELSE IF args.add # <<>>
       THEN [kind |-> "Add", url |-> args.add[1],
             name |-> IF Len(args.add) >= 2 THEN args.add[2] ELSE NoneValue,
             catch_up |-> catch_up]
       ELSE [kind |-> "Sync", filter |-> filter, print |-> args.print]

\* From<Args> for Action, lines 74-128: the filter is compiled first (a
\* pattern that does not compile panics), then the first test that holds
\* decides the action.
ActionFrom(args) ==
    LET filter == ActionFilter(args.filter)
        catch_up == args.catch_up
    IN IF filter.kind = "Err" THEN [kind |-> "Panic"]
       ELSE IF args.list THEN [kind |-> "List", filter |-> filter]
       ELSE IF args.edit_config THEN [kind |-> "Edit", path |-> "config"]
       ELSE IF args.edit_podcasts THEN [kind |-> "Edit", path |-> "podcasts"]
       ELSE IF args.search # NoneValue
       THEN [kind |-> "Search", query |-> args.search, catch_up |-> catch_up]
       ELSE IF args.import # NoneValue
       THEN [kind |-> "Import", path |-> args.import, catch_up |-> catch_up]
       ELSE IF args.export # NoneValue
       THEN [kind |-> "Export", path |-> args.export, filter |-> filter]
       ELSE IF args.add # <<>>
       THEN [kind |-> "Add", url |-> args.add[1],
             name |-> IF Len(args.add) >= 2 THEN args.add[2] ELSE NoneValue,
             catch_up |-> catch_up]
       ELSE IF catch_up THEN [kind |-> "CatchUp", filter |-> filter]
       ELSE [kind |-> "Sync", filter |-> filter, print |-> args.print]

\* PodcastConfigs::push: true when the name was not configured yet
PodcastConfigs_push(configs, name) == name \notin configs

\* main, line 237: Regex::new(&format!("^{}$", &name)); the name goes into
\* the pattern as it is
AddFilter(name) == RegexNew(<<"^">> \o name \o <<"$">>)

\* main, Action::Add (lines 218-243) on the configured names configs, with
\* input what utils::get_input returns when no NAME was given.  caught is the
\* set of subscriptions PodcastConfigs::catch_up is run on.
ActionAdd(action, configs, input) ==
    LET name == IF action.name # NoneValue THEN action.name ELSE input
        res(out, cs, caught) ==
            [out |-> out, configured |-> cs, caught |-> caught]
    IN IF name = NoneValue THEN res("no_name", configs, {})
       ELSE IF ~PodcastConfigs_push(configs, name)
       THEN res("exists", configs, {})
       ELSE IF ~action.catch_up THEN res("added", configs \cup {name}, {})
       ELSE IF AddFilter(name).kind = "Err"
       THEN res("panic", configs \cup {name}, {})
       ELSE res("added", configs \cup {name},
                PodcastConfigs_filter(configs \cup {name}, AddFilter(name)))

\* ------------------------------------------------------------------ state
VARIABLES
    fs,          \* what the tracker path denotes: [kind, content]
    feeds,       \* what each subscription's feed returns
    phase,       \* "idle", or the action that is running: "sync", "catchup"
    term,        \* how the last invocation ended itself abnormally, or "none"
    runs,        \* invocations so far
    filter,      \* the --filter argument of the running invocation
    mem,         \* DownloadedEpisodes of the running invocation
    w,           \* per subscription: position of its unit of work
    paths,       \* local paths collected by the running sync
    decided,     \* per subscription: ids its check found absent, this run
    runDl,       \* ids the Download Executor was invoked for, this run
    runRec,      \* per id: appends that returned Ok, this run
    runFail,     \* a fetch, download or append failed, this run
    startRec,    \* recorded, as it was when this run started
    recorded,    \* ids some append has returned Ok for, ever
    dlAfter,     \* per id: Executor invocations made after it was recorded
    prev,        \* summary of the invocation before this one
    runOk,       \* per id: downloads that succeeded, this run
    log,         \* appends that returned Ok, this run, in order: <<s, idx>>
    torn,        \* some append was cut short after writing part of its record
    cli          \* command line of the last invocation and what main made of it

runVars == <<filter, mem, w, paths, decided, runDl, runRec, runFail, startRec,
            runOk, log>>
\* the download run and its ledger
syncVars == <<fs, feeds, phase, term, runs, filter, mem, w, paths, decided, runDl,
              runRec, runFail, startRec, recorded, dlAfter, prev, runOk, log,
              torn>>
vars == <<syncVars, cli>>

\* saturation of the dlAfter counters
DlCap == 2

Off == [pc |-> "off", idx |-> 0]

\* what is remembered of an invocation once it has ended: "completed", a sync
\* over every subscription that returned with no failure; "stopped", a sync
\* stopped part-way (killed); "other"
Summary(kind, how, active, failed) ==
    IF kind = "sync" /\ how = "ok" /\ ~failed /\ active = Subs THEN "completed"
    ELSE IF kind = "sync" /\ how = "killed" THEN "stopped"
    ELSE "other"

NoRun == "none"

Active == {s \in Subs : w[s].pc # "off"}
AllDone == \A s \in Subs : w[s].pc \in {"off", "done", "failed"}
Running == phase # "idle"
\* sync (or catch_up) has joined every unit of work and is about to return
Returning == Running /\ AllDone

Cand(s) == feeds[s][w[s].idx]

\* the ids the feeds of the subscriptions in sel carry
IdsOf(sel) == UNION {{feeds[s][i].id : i \in 1..Len(feeds[s])} : s \in sel}

\* no command line has been handled yet; configs are the configured names
CliIdle(configs) ==
    [args |-> NoneValue, action |-> [kind |-> "None"], input |-> NoneValue,
     out |-> "", configured |-> configs, caught |-> {}]

IdleRunVars ==
    /\ filter = NoneValue
    /\ mem = {}
    /\ w = [s \in Subs |-> Off]
    /\ paths = <<>>
    /\ decided = [s \in Subs |-> {}]
    /\ runDl = {}
    /\ runRec = [e \in EpisodeIds |-> 0]
    /\ runFail = FALSE
    /\ startRec = {}
    /\ runOk = [e \in EpisodeIds |-> 0]
    /\ log = <<>>

\* no tracker file yet, nothing running
InitSync ==
    /\ fs = [kind |-> "absent", content |-> <<>>]
    /\ phase = "idle"
    /\ term = "none"
    /\ runs = 0
    /\ IdleRunVars
    /\ recorded = {}
    /\ dlAfter = [e \in EpisodeIds |-> 0]
    /\ prev = NoRun
    /\ torn = FALSE

Init ==
    /\ feeds \in FeedChoices
    /\ InitSync
    /\ cli = CliIdle({})

\* the process is gone: its memory with it
EndRun(how) ==
    /\ phase' = "idle"
    /\ term' = IF how \in {"ok", "killed"} THEN "none" ELSE how
    /\ prev' = Summary(phase, how, Active, runFail)
    /\ filter' = NoneValue
    /\ mem' = {}
    /\ w' = [s \in Subs |-> Off]
    /\ paths' = <<>>
    /\ decided' = [s \in Subs |-> {}]
    /\ runDl' = {}
    /\ runRec' = [e \in EpisodeIds |-> 0]
    /\ runFail' = FALSE
    /\ startRec' = {}
    /\ runOk' = [e \in EpisodeIds |-> 0]
    /\ log' = <<>>

\* main: Action::from(args), then the chosen action up to the point where the
\* units of work are launched.  kind is "sync" (no --catch-up) or "catchup".
Start(kind, f) ==
    /\ phase = "idle"
    /\ runs < MaxRuns
    /\ runs' = runs + 1
    /\ UNCHANGED <<fs, feeds, recorded, dlAfter, torn, cli>>
    /\ LET re == ActionFilter(f)
           ld == load(fs)
       IN IF re.kind = "Err"
          THEN /\ term' = "panic_regex"
               /\ UNCHANGED <<phase, prev>>
               /\ UNCHANGED runVars
          ELSE IF ld.panic
          THEN /\ term' = "panic_load"
               /\ UNCHANGED <<phase, prev>>
               /\ UNCHANGED runVars
          ELSE /\ phase' = kind
               /\ term' = "none"
               /\ filter' = f
               /\ mem' = ld.ids
               /\ w' = [s \in Subs |->
                          IF s \in PodcastConfigs_filter(Subs, re)
                          THEN [pc |-> "fetch", idx |-> 0]
                          ELSE Off]
               /\ startRec' = recorded
               /\ UNCHANGED <<paths, decided, runDl, runRec, runFail, prev, runOk, log>>

StartSync == \E f \in Filters : Start("sync", f)
StartCatchUp == \E f \in Filters : Start("catchup", f)

\* the unit of work of s moves to its next candidate
Advance(s) ==
    w' = [w EXCEPT ![s] = IF w[s].idx < Len(feeds[s])
                          THEN [pc |-> "check", idx |-> w[s].idx + 1]
                          ELSE [pc |-> "done", idx |-> w[s].idx]]

\* Feed Source: the feed of s is fetched
FetchOk(s) ==
    /\ Running
    /\ w[s].pc = "fetch"
    /\ Advance(s)
    /\ UNCHANGED <<fs, feeds, phase, term, runs, filter, mem, paths, decided,
                   runDl, runRec, runFail, startRec, recorded, dlAfter, prev,
                   runOk, log, torn, cli>>

\* Feed Source: the feed of s cannot be fetched; only s is given up
FetchFail(s) ==
    /\ Running
    /\ w[s].pc = "fetch"
    /\ w' = [w EXCEPT ![s] = [pc |-> "failed", idx |-> 0]]
    /\ runFail' = TRUE
    /\ UNCHANGED <<fs, feeds, phase, term, runs, filter, mem, paths, decided,
                   runDl, runRec, startRec, recorded, dlAfter, prev, runOk,
                   log, torn, cli>>

\* no other unit of work is between its check and its append for the id of
\* the candidate of s: check-then-append is serialized per id
IdFree(s) ==
    \A t \in Subs \ {s} :
        w[t].pc \in {"download", "append"} => Cand(t).id # Cand(s).id

\* Selector: the candidate is looked up in the ledger loaded at the start
Check(s) ==
    /\ Running
    /\ w[s].pc = "check"
    /\ IdFree(s)
    /\ IF contains_episode(mem, Cand(s).id)
       THEN /\ Advance(s)
            /\ UNCHANGED decided
       ELSE /\ w' = [w EXCEPT ![s].pc =
                        IF phase = "catchup" THEN "append" ELSE "download"]
            /\ decided' = [decided EXCEPT ![s] = @ \cup {Cand(s).id}]
    /\ UNCHANGED <<fs, feeds, phase, term, runs, filter, mem, paths,
                   runDl, runRec, runFail, startRec, recorded, dlAfter, prev,
                   runOk, log, torn, cli>>

\* the Download Executor is invoked for the candidate of s
Invoke(s) ==
    /\ Running
    /\ w[s].pc = "download"
    /\ runDl' = runDl \cup {Cand(s).id}
    /\ dlAfter' = [dlAfter EXCEPT ![Cand(s).id] =
                      IF Cand(s).id \in recorded /\ @ < DlCap THEN @ + 1 ELSE @]

DownloadOk(s) ==
    /\ Invoke(s)
    /\ w' = [w EXCEPT ![s].pc = "append"]
    /\ runOk' = [runOk EXCEPT ![Cand(s).id] = @ + 1]
    /\ UNCHANGED <<fs, feeds, phase, term, runs, filter, mem, paths, decided,
                   runRec, runFail, startRec, recorded, prev, log, torn, cli>>

\* a failed download that is handed to append all the same
DownloadFailThenAppend(s) ==
    /\ Invoke(s)
    /\ w' = [w EXCEPT ![s].pc = "append"]
    /\ runFail' = TRUE
    /\ UNCHANGED <<fs, feeds, phase, term, runs, filter, mem, paths, decided,
                   runRec, startRec, recorded, prev, runOk, log, torn, cli>>

\* the download fails: nothing is appended, the unit of work goes on
DownloadFail(s) ==
    /\ Invoke(s)
    /\ Advance(s)
    /\ runFail' = TRUE
    /\ UNCHANGED <<fs, feeds, phase, term, runs, filter, mem, paths, decided,
                   runRec, startRec, recorded, prev, runOk, log, torn, cli>>

\* ------------------------------------------------------------------ append
\* The unit of work of s calls DownloadedEpisodes::append for its candidate:
\* after a download that succeeded, or at once under catch-up.
Appending(s) ==
    /\ Running
    /\ w[s].pc = "append"

\* lines 40-44: the path is a directory; std::process::exit(1)
AppendIsDir(s) ==
    /\ Appending(s)
    /\ fs.kind = "dir"
    /\ EndRun("exit_append")
    /\ UNCHANGED <<fs, feeds, runs, recorded, dlAfter, torn, cli>>

\* lines 50-54: the open fails; Err("failed to open tracker file") is returned
\* and the unit of work goes on with its next candidate
AppendOpenErr(s) ==
    /\ Appending(s)
    /\ fs.kind # "dir"
    /\ Advance(s)
    /\ runFail' = TRUE
    /\ UNCHANGED <<fs, feeds, phase, term, runs, filter, mem, paths, decided,
                   runDl, runRec, startRec, recorded, dlAfter, prev, runOk,
                   log, torn, cli>>

\* lines 56-63: one of the writes fails after k of them were made; unwrap panics
AppendWritePanic(s, k) ==
    /\ Appending(s)
    /\ fs.kind # "dir"
    /\ fs' = WriteTo(fs, Cand(s).id, Cand(s).title, k)
    /\ EndRun("panic_append")
    /\ torn' = (torn \/ k >= 1)
    /\ UNCHANGED <<feeds, runs, recorded, dlAfter, cli>>

\* the process is stopped inside append, after k of the writes were made
AppendKilled(s, k) ==
    /\ Appending(s)
    /\ fs.kind # "dir"
    /\ fs' = WriteTo(fs, Cand(s).id, Cand(s).title, k)
    /\ EndRun("killed")
    /\ torn' = (torn \/ k >= 1)
    /\ UNCHANGED <<feeds, runs, recorded, dlAfter, cli>>

\* lines 50-65: the record is written and Ok(()) returned.  The set loaded at
\* the start (mem) is not touched: append takes no DownloadedEpisodes.
AppendOk(s) ==
    /\ Appending(s)
    /\ fs.kind # "dir"
    /\ fs' = WriteTo(fs, Cand(s).id, Cand(s).title, NumPieces)
    /\ recorded' = recorded \cup {Cand(s).id}
    /\ runRec' = [runRec EXCEPT ![Cand(s).id] = @ + 1]
    /\ paths' = IF phase = "sync" THEN Append(paths, <<s, Cand(s).id>>) ELSE paths
    /\ log' = Append(log, <<s, w[s].idx>>)
    /\ Advance(s)
    /\ UNCHANGED <<feeds, phase, term, runs, filter, mem, decided, runDl,
                   runFail, startRec, dlAfter, prev, runOk, torn, cli>>

append(s) ==
    \/ AppendIsDir(s)
    \/ AppendOpenErr(s)
    \/ \E k \in 0..(NumPieces - 1) : AppendWritePanic(s, k)
    \/ \E k \in 0..(NumPieces - 1) : AppendKilled(s, k)
    \/ AppendOk(s)

\* ------------------------------------------------------------------ process
\* the process is stopped between two steps of a run
Kill ==
    /\ Running
    /\ EndRun("killed")
    /\ UNCHANGED <<fs, feeds, runs, recorded, dlAfter, torn, cli>>

\* every unit of work has ended: the action returns and main ends
Finish ==
    /\ Returning
    /\ EndRun("ok")
    /\ UNCHANGED <<fs, feeds, runs, recorded, dlAfter, torn, cli>>

\* outside the program: a directory appears where the tracker file would be
EnvMkdir ==
    /\ fs.kind = "absent"
    /\ fs' = [kind |-> "dir", content |-> <<>>]
    /\ UNCHANGED <<feeds, phase, term, runs, filter, mem, w, paths, decided,
                   runDl, runRec, runFail, startRec, recorded, dlAfter, prev,
                   runOk, log, torn, cli>>

Next ==
    \/ StartSync
    \/ StartCatchUp
    \/ \E s \in Subs : FetchOk(s)
    \/ \E s \in Subs : FetchFail(s)
    \/ \E s \in Subs : Check(s)
    \/ \E s \in Subs : DownloadOk(s)
    \/ \E s \in Subs : DownloadFail(s)
    \/ \E s \in Subs : append(s)
    \/ Kill
    \/ Finish
    \/ EnvMkdir

Spec == Init /\ [][Next]_vars

\* ------------------------------------------------------------- one invocation
\* main, lines 188-262, for one command line: Action::from(args), then the arm
\* of the match for Action::Add and Action::CatchUp.  The other arms run code
\* that acts on neither the configured names nor the ledger held here.
Main(args, input) ==
    /\ cli.action.kind = "None"
    /\ LET action == ActionFrom(args)
           cs == cli.configured
           done(out, configured, caught) ==
               [args |-> args, action |-> action, input |-> input, out |-> out,
                configured |-> configured, caught |-> caught]
       IN cli' =
            IF action.kind = "Add"
            THEN LET r == ActionAdd(action, cs, input)
                 IN done(r.out, r.configured, r.caught)
            ELSE IF action.kind = "CatchUp"
            THEN done("", cs, PodcastConfigs_filter(cs, action.filter))
            ELSE done("", cs, {})
    /\ UNCHANGED syncVars

\* the names configured before the invocation, nothing run yet
InitCli ==
    /\ feeds = [s \in Subs |-> <<>>]
    /\ InitSync
    /\ cli \in {CliIdle(configs) : configs \in SUBSET Names}

\* get_input is called only for an Add without NAME
Inputs(args) ==
    IF ActionFrom(args).kind = "Add" /\ Len(args.add) = 1
    THEN Names \cup {NoneValue}
    ELSE {NoneValue}

NextCli == \E args \in ArgsSet : \E input \in Inputs(args) : Main(args, input)

SpecCli == InitCli /\ [][NextCli]_vars

\* ------------------------------------------------------------------ claims
\* the ledger holds the id at the start of the running invocation: an append
\* has returned Ok for it, or load reported it
InLedgerAtStart(e) == e \in startRec \/ contains_episode(mem, e)

\* C1: once the first successful append has recorded an id, the Download
\* Executor is invoked for that id at most once more, over all runs and all
\* units of work.  (The reading "never again" is stronger and fails with it.)
AtMostOnceAfterRecorded == \A e \in EpisodeIds : dlAfter[e] <= 1

\* C2: in a sync in which nothing has failed, two units of work never both
\* decide that the same id, absent from the ledger when the run started, is
\* new (so that at most one of them downloads it).
CheckThenAppendAtomic ==
    (phase = "sync" /\ ~runFail) =>
        \A s \in Subs : \A t \in Subs \ {s} :
            \A e \in decided[s] \cap decided[t] : InLedgerAtStart(e)

\* C3: within a run, every id an append has returned Ok for is reported by
\* contains_episode on the ledger loaded at the start of that run.
AppendedIsContained ==
    Running => \A e \in EpisodeIds : runRec[e] > 0 => contains_episode(mem, e)

\* C4: a sync that follows a stopped sync and returns without failure has
\* invoked the Download Executor for exactly the ids of its feeds that the
\* ledger did not hold: none of the recorded ones, every one of the others.
ResumeDownloadsExactlyRest ==
    (phase = "sync" /\ Returning /\ prev = "stopped" /\ ~runFail) =>
        runDl = {e \in IdsOf(Active) : ~InLedgerAtStart(e)}

\* C5: a sync that follows a sync which completed without failure over every
\* subscription downloads nothing and adds no ledger entry.
IdempotentResume ==
    (phase = "sync" /\ prev = "completed") =>
        /\ runDl = {}
        /\ \A e \in EpisodeIds : runRec[e] = 0

\* C6: every id an append has returned Ok for is reported by a ledger loaded
\* from the file.
LedgerRoundTrip ==
    \A e \in recorded : ~load(fs).panic /\ contains_episode(load(fs).ids, e)

\* C7: an invocation that finds no file at the tracker path loads the empty
\* ledger and goes on (load does not fail), and the load creates no file.
LoadMissingIsEmpty ==
    [][(phase = "idle" /\ fs.kind = "absent" /\ runs' = runs + 1
            /\ term' # "panic_regex")
        => (phase' # "idle" /\ term' = "none" /\ mem' = {} /\ fs' = fs)]_vars

\* C7 witness: a run is under way on the empty ledger loaded from no file
LoadMissingWitness ==
    /\ Running
    /\ fs.kind = "absent"
    /\ mem = {}
    /\ \E s \in Subs : w[s].pc = "download"

\* C8: append never ends the process: no invocation ends by the exit or by a
\* panic inside append.
AppendNeverTerminates == term \notin {"exit_append", "panic_append"}

\* C9: a catch-up never invokes the Download Executor and collects no path;
\* when it returns without failure the ledger has gained exactly one entry
\* for every id of its feeds that it did not hold, and none for the others.
CatchUpSkip ==
    phase = "catchup" =>
        /\ runDl = {}
        /\ paths = <<>>
        /\ (Returning /\ ~runFail) =>
              \A e \in EpisodeIds :
                  runRec[e] = IF e \in IdsOf(Active) /\ ~InLedgerAtStart(e)
                              THEN 1 ELSE 0

\* case-insensitive match, stated on the lower-cased pattern and name
MatchesIgnoringCase(p, name) ==
    \E j \in 1..(Len(name) + 1) : MatchHere(FALSE, Lower(p), 1, Lower(name), j)

EntryOnlyAfterSuccess ==
    /\ phase = "sync" => \A e \in EpisodeIds : runRec[e] <= runOk[e]
    /\ phase = "catchup" =>
          /\ runDl = {}
          /\ \A e \in EpisodeIds :
                runRec[e] > 0 => \E s \in Subs : e \in decided[s]
    /\ phase = "idle" => \A e \in EpisodeIds : runRec[e] = 0

\* a download has failed and left no record while another was recorded
EntryOnlyAfterSuccessWitness ==
    /\ phase = "sync"
    /\ runFail
    /\ \E e \in runDl : runOk[e] = 0 /\ runRec[e] = 0 /\ e \notin recorded
    /\ \E e \in runDl : runOk[e] = 1 /\ runRec[e] = 1

\* the records of the text that load reads as records of id e
RecordsOf(text, e) ==
    LET ls == Lines(Trim(text))
    IN Cardinality({i \in 1..Len(ls) : FirstToken(ls[i]) = e})

\* C12: every downloaded episode has exactly one ledger entry, written before
\* the caller learns of the download.  When sync returns, the store read back
\* holds the id of every path returned; and the store never holds more than
\* one record for an id.
ExactlyOneEntry ==
    /\ (Returning /\ phase = "sync") =>
          \A i \in 1..Len(paths) : contains_episode(load(fs).ids, paths[i][2])
    /\ \A e \in EpisodeIds : RecordsOf(fs.content, e) <= 1

\* when sync returns, every candidate of every subscription whose feed was
\* fetched has been dealt with: it was in the ledger, or the Download Executor
\* was invoked for it
SiblingsProcessed ==
    (Returning /\ phase = "sync") =>
        \A s \in Subs : w[s].pc = "done" =>
            \A i \in 1..Len(feeds[s]) :
                InLedgerAtStart(feeds[s][i].id) \/ feeds[s][i].id \in runDl

\* C13: failure isolation.  A failed fetch or download gives up only its own
\* unit of work: the others go on to the end of their feeds and the run
\* returns.  Nothing but a failure of the ledger path ends a run that has
\* started: no run is ended by a panic inside append.
FailureIsolation ==
    /\ SiblingsProcessed
    /\ term # "panic_append"

RECURSIVE RunRecords(_)
\* what the appends of l have written, in their order
RunRecords(l) ==
    IF l = <<>> THEN <<>>
    ELSE LET e == feeds[Head(l)[1]][Head(l)[2]]
         IN Record(e.id, e.title) \o RunRecords(Tail(l))

EndsWith(text, tail) ==
    /\ Len(tail) <= Len(text)
    /\ SubSeq(text, Len(text) - Len(tail) + 1, Len(text)) = tail

\* C14: per-subscription ordering.  Within a run the appends of one
\* subscription are made in feed order, and the file ends with the records of
\* the run in the order of their appends: two records of one subscription
\* written in the same run stand in the file in feed order.
PerSubscriptionOrder ==
    Running =>
        /\ \A i, j \in 1..Len(log) :
              (i < j /\ log[i][1] = log[j][1]) => log[i][2] < log[j][2]
        /\ EndsWith(fs.content, RunRecords(log))

\* two records of one subscription with a record of the other between them
PerSubscriptionOrderWitness ==
    /\ Running
    /\ \E i, j, k \in 1..Len(log) :
          i < j /\ j < k /\ log[i][1] = log[k][1] /\ log[j][1] # log[i][1]

IsPrefix(head, text) ==
    /\ Len(head) <= Len(text)
    /\ SubSeq(text, 1, Len(head)) = head

\* a step that writes to the tracker file keeps what the file held
BytesKept == (fs' # fs /\ fs'.kind = "file") => IsPrefix(fs.content, fs'.content)

\* C15: append-only frame.  Every append, completed or cut short, leaves the
\* bytes written before it unchanged, and after it load still reports every
\* id whose append had completed before.
AppendOnlyFrame ==
    [][ /\ BytesKept
        /\ (fs' # fs /\ fs'.kind = "file") =>
              \A e \in recorded : contains_episode(load(fs').ids, e) ]_vars

\* C16: what load yields depends on the first token of each record only.  As
\* long as no append was cut short, load yields exactly the ids that were
\* appended, whatever the titles written with them.
TitleIndependence == ~torn => load(fs).ids = recorded

\* the name the handled Add is for: NAME, or what get_input returned
AddedName == IF cli.action.name # NoneValue THEN cli.action.name ELSE cli.input

\* C17: an Add with catch-up of a name that was not configured runs the
\* catch-up on exactly the subscription of that name, whatever the name; an
\* Add of a name that exists runs no catch-up.
AddCatchUpExact ==
    cli.action.kind = "Add" =>
        /\ cli.out # "panic"
        /\ (cli.out = "added" /\ cli.action.catch_up) => cli.caught = {AddedName}
        /\ cli.out = "exists" => cli.caught = {}

\* C18: a record cut short does no harm.  Once an append has been cut short
\* after part of its record, and whatever is appended afterwards, load reports
\* an episode id exactly when an append of that id has completed.
TornRecordHarmless ==
    torn => \A e \in EpisodeIds :
                contains_episode(load(fs).ids, e) <=> e \in recorded

\* which of the flags that choose an action are given, highest priority
\* first: list, edit-config, edit-podcasts, search, import, export, add,
\* catch-up; sync is what remains
Flags(a) ==
    << a.list, a.edit_config, a.edit_podcasts, a.search # NoneValue,
       a.import # NoneValue, a.export # NoneValue, a.add # <<>>, a.catch_up,
       TRUE >>

PriorityKinds ==
    << "List", "Edit", "Edit", "Search", "Import", "Export", "Add", "CatchUp",
       "Sync" >>

\* the first flag given, in the order of priority
FirstFlag(a) ==
    CHOOSE i \in 1..Len(Flags(a)) :
        Flags(a)[i] /\ \A j \in 1..(i - 1) : ~Flags(a)[j]

\* act is the action of the highest flag given
ByPriority(a, act) ==
    /\ act.kind = PriorityKinds[FirstFlag(a)]
    /\ a.edit_config /\ act.kind = "Edit" => act.path = "config"
    /\ ~a.edit_config /\ act.kind = "Edit" => act.path = "podcasts"

\* --catch-up is the only flag given that chooses an action
OnlyCatchUp(a) == a.catch_up /\ PriorityKinds[FirstFlag(a)] = "CatchUp"

\* with --catch-up the action is never Sync; an Add, Import or Search carries
\* catch_up = true; with nothing but a filter it is CatchUp with that filter
CatchUpRules(a, act) ==
    /\ a.catch_up => act.kind # "Sync"
    /\ (a.catch_up /\ act.kind \in {"Add", "Import", "Search"}) => act.catch_up
    /\ OnlyCatchUp(a) =>
          act = [kind |-> "CatchUp", filter |-> ActionFilter(a.filter)]

\* a command line has been handled
Handled == cli.action.kind # "None"

\* C19 as stated: every command line resolves to exactly one action, the one
\* of the highest flag given, and --catch-up never resolves to Sync.
ResolvesForEveryCommandLine ==
    Handled =>
        /\ cli.action.kind # "Panic"
        /\ ByPriority(cli.args, cli.action)
        /\ CatchUpRules(cli.args, cli.action)

\* C19: every command line whose filter compiles resolves to exactly one
\* action, the one of the highest flag given in the order list, edit-config,
\* edit-podcasts, search, import, export, add, catch-up, sync; with --catch-up
\* it is never Sync.  A filter that does not compile panics before any action
\* is chosen.
ResolvesByPriority ==
    Handled =>
        IF ActionFilter(cli.args.filter).kind = "Err"
        THEN cli.action.kind = "Panic"
        ELSE /\ ByPriority(cli.args, cli.action)
             /\ CatchUpRules(cli.args, cli.action)

\* --catch-up with a filter and nothing else has resolved to CatchUp, and
\* the catch-up was run on the subscriptions the filter matches
ResolvesByPriorityWitness ==
    /\ Handled
    /\ OnlyCatchUp(cli.args)
    /\ cli.args.filter = <<"x">>
    /\ cli.action.kind = "CatchUp"
    /\ cli.caught = {NameX}

====
